---- MODULE Spec2Model ----
(***************************************************************************)
(* LingoPet: the spaced-repetition scheduler (services/storageService.ts),  *)
(* the review-session engine (components/ReviewSession.tsx) and what the   *)
(* host does around a session (App.tsx: startReview, handleReviewComplete, *)
(* the pet; components/Dictionary.tsx: handleSearch).                      *)
(*                                                                         *)
(* The word store is the localStorage array behind getWords/updateWord.    *)
(* A session is one mounted ReviewSession component: its React state, its  *)
(* refs, the asynchronous card sequences started by runPassiveSequence and *)
(* the image-generation promises whose .then writes the image cache.       *)
(* A handler and the effect React runs after the state change it makes are *)
(* one action (React 18 batches the setState calls of one task and flushes *)
(* the effect of useEffect([isPlaying, currentIndex]) with the commit).    *)
(***************************************************************************)
EXTENDS Integers, Sequences, FiniteSets, Bags, TLC

---------------------------------------------------------------------------
(* Bounds of the model *)

NumWords == 3        \* words in the store; a session's queue is a prefix of them
MaxClock == 1        \* the clock runs over 0..MaxClock ticks
TicksPerDay == 1     \* ticks of the clock in one calendar day
NumImages == 1       \* distinct image URLs the generator can return
MaxSeqs == 2         \* card sequences alive at once (suspended promises)
MaxFills == 1        \* image-cache fills in flight at once
MinLevelIn == 3      \* scheduler inputs range over -MinLevelIn..MaxLevelIn
MaxLevelIn == 7
NumHeadwords == 1    \* headwords the dictionary can identify
MaxLookups == 1      \* dictionary queries in flight at once
MaxXp == 60          \* no session is started whose reward would take the XP above this
MaxLookupXp == 20    \* no lookup is started whose reward would take the XP above this
MaxPetCalls == 1     \* pet updates suspended when a lookup or a session is started

---------------------------------------------------------------------------
(* Values *)

Null == -1           \* lastReviewedAt: number | null
NoImage == 0         \* todayImage absent (undefined), or currentImage null
NoDate == -1         \* todayImageDate absent (undefined)
NoCount == -1        \* reviewCount absent (legacy data)
NoTimer == 0         \* timeoutRef.current null, or a timer that is gone
FreshUuid == 0       \* a crypto.randomUUID() that no stored word has

WordIds == 1..NumWords
Images == 1..NumImages
Clock == 0..MaxClock
Modes == {"passive", "active"}

Min(a, b) == IF a <= b THEN a ELSE b
Max(a, b) == IF a >= b THEN a ELSE b

\* new Date().toISOString().split('T')[0]: the calendar day of a timestamp
TodayStr(t) == t \div TicksPerDay

\* d.setDate(d.getDate() + days); d.getTime(): the same time of day, days later
AddDays(t, days) == t + days * TicksPerDay

---------------------------------------------------------------------------
(* Scheduler: storageService.ts, INTERVALS and calculateNextReview *)

INTERVALS == <<1, 3, 7, 14, 30>>

\* JavaScript arrays are 0-indexed, TLA+ sequences 1-indexed
IntervalAt(i) == INTERVALS[i + 1]

\* variant: a failed recall steps back one level instead of resetting
CalculateNextReviewStepBack(currentLevel, wasCorrect, t) ==
    IF ~wasCorrect
    THEN [level |-> Max(0, currentLevel - 1), date |-> t]
    ELSE LET nextLevel == Min(currentLevel + 1, Len(INTERVALS))
             daysToAdd == IntervalAt(Max(0, nextLevel - 1))
         IN  [level |-> nextLevel, date |-> AddDays(t, daysToAdd)]

\* variant: the interval is looked up at the new level, not one below it
CalculateNextReviewIndexedByLevel(currentLevel, wasCorrect, t) ==
    IF ~wasCorrect
    THEN [level |-> 0, date |-> t]
    ELSE LET nextLevel == Min(currentLevel + 1, Len(INTERVALS))
             daysToAdd == IntervalAt(Min(Max(0, nextLevel), Len(INTERVALS) - 1))
         IN  [level |-> nextLevel, date |-> AddDays(t, daysToAdd)]

\* variant: the cap one above the table length, the table index clipped
CalculateNextReviewCappedLate(currentLevel, wasCorrect, t) ==
    IF ~wasCorrect
    THEN [level |-> 0, date |-> t]
    ELSE LET nextLevel == Min(currentLevel + 1, Len(INTERVALS) + 1)
             daysToAdd == IntervalAt(Min(Max(0, nextLevel - 1), Len(INTERVALS) - 1))
         IN  [level |-> nextLevel, date |-> AddDays(t, daysToAdd)]

CalculateNextReview(currentLevel, wasCorrect, t) ==
    IF ~wasCorrect
    THEN [level |-> 0, date |-> t]
    ELSE LET nextLevel == Min(currentLevel + 1, Len(INTERVALS))
             daysToAdd == IntervalAt(Max(0, nextLevel - 1))
         IN  [level |-> nextLevel, date |-> AddDays(t, daysToAdd)]

---------------------------------------------------------------------------
(* Word store: storageService.ts, getWords and updateWord *)

\* getWords: every record read gets reviewCount: w.reviewCount || 0
NormCount(c) == IF c = NoCount THEN 0 ELSE c

GetWords(store) ==
    [i \in DOMAIN store |-> [store[i] EXCEPT !.reviewCount = NormCount(@)]]

\* variant: the spread reversed, { ...updates, ...words[idx] }
MergeReversed(w, updates) == w

\* { ...words[idx], ...updates }: the fields of updates replace those of w
Merge(w, updates) ==
    [f \in DOMAIN w |-> IF f \in DOMAIN updates THEN updates[f] ELSE w[f]]

\* arr.findIndex(w => w.id === id), 1-based; 0 when there is none
FindIndex(arr, id) ==
    LET hits == {k \in DOMAIN arr : arr[k].id = id}
    IN  IF hits = {} THEN 0 ELSE CHOOSE k \in hits : \A j \in hits : k <= j

\* variant: words[idx] = updates, the stored record's other fields lost
UpdateWordOverwrite(store, id, updates) ==
    LET ws == GetWords(store)
        idx == FindIndex(ws, id)
        blank == [id |-> id, addedAt |-> 0, reviewLevel |-> 0, reviewCount |-> 0,
                  nextReviewDate |-> 0, lastReviewedAt |-> Null,
                  todayImage |-> NoImage, todayImageDate |-> NoDate]
    IN  IF idx # 0
        THEN [ws EXCEPT ![idx] = [f \in DOMAIN blank |->
                 IF f \in DOMAIN updates THEN updates[f] ELSE blank[f]]]
        ELSE store

\* updateWord(id, updates): read all, merge into the record with that id,
\* write all back; nothing is written when the id is not stored
UpdateWord(store, id, updates) ==
    LET ws == GetWords(store)
        idx == FindIndex(ws, id)
    IN  IF idx # 0
        THEN [ws EXCEPT ![idx] = Merge(ws[idx], updates)]
        ELSE store

\* saveWord(newWord). A stored word's id stands for its headword (the id of
\* a stored headword is kept, so the two go together): a stored headword has
\* its record overwritten by the fields of newWord, the id and the image
\* cache (which newWord lacks) excepted; a new one is pushed with
\* reviewCount 0.
SaveWord(store, newWord) ==
    LET ws == GetWords(store)
        idx == FindIndex(ws, newWord.id)
    IN  IF idx # 0
        THEN [ws EXCEPT ![idx] = Merge(ws[idx], newWord)]
        ELSE Append(ws, [id |-> newWord.id,
                         addedAt |-> newWord.addedAt,
                         reviewLevel |-> newWord.reviewLevel,
                         reviewCount |-> 0,
                         nextReviewDate |-> newWord.nextReviewDate,
                         lastReviewedAt |-> newWord.lastReviewedAt,
                         todayImage |-> NoImage,
                         todayImageDate |-> NoDate])

---------------------------------------------------------------------------
(* State *)

VARIABLES
    words,          \* the store: id -> WordEntry (localStorage 'lingopet_words')
    now,            \* the clock (Date.now())
    sessMode,       \* props.mode
    sessionWords,   \* useState(words): the session's queue of WordEntry copies
    currentIndex,   \* useState(0): the cursor, 0-based
    isPlaying,      \* useState(false)
    showImage,      \* useState(false)
    currentImage,   \* useState(null)
    loadingImage,   \* useState(false)
    timeoutRef,     \* useRef: the sequence whose timer was set last, if pending
    isPlayingRef,   \* useRef(false)
    mountedRef,     \* useRef(true)
    seqs,           \* the suspended runPassiveSequence calls
    fills,          \* bag of generateCardImage(...).then(updateWord) in flight
    completions,    \* the arguments of the onComplete calls made, in order
    grades,         \* number of handleRate calls made
    lastOp,         \* the handler or continuation that ran last
    sched,          \* a scheduler call: its arguments and, once made, its result
    pet,            \* App's pet state, as rendered and as saved by updatePet
    petCalls,       \* the host's suspended pet updates, each with the pet it closed over
    stats,          \* the stored daily stats (localStorage 'lingopet_stats')
    lookups         \* the suspended handleSearch calls of the dictionary

vars == <<words, now, sessMode, sessionWords, currentIndex, isPlaying,
          showImage, currentImage, loadingImage, timeoutRef, isPlayingRef,
          mountedRef, seqs, fills, completions, grades, lastOp, sched,
          pet, petCalls, stats, lookups>>

hostVars == <<pet, petCalls, stats, lookups>>

sessVars == <<sessMode, sessionWords, currentIndex, isPlaying, showImage,
              currentImage, loadingImage, timeoutRef, isPlayingRef, mountedRef,
              seqs, fills, completions, grades>>

NoCall == [level |-> 0, correct |-> FALSE, at |-> 0, out |-> <<>>]

\* the entry under the cursor: sessionWords[currentIndex], undefined past the end
HasCurrentWord == currentIndex < Len(sessionWords)
CurrentWord == sessionWords[currentIndex + 1]

---------------------------------------------------------------------------
(* Initial states: a store of NumWords words and a freshly mounted session *)

\* the stored words cover every level 0..5 over the choices of base
InitLevel(base, i) == (base + i - 1) % (Len(INTERVALS) + 1)

\* word 1 is a legacy record without reviewCount
InitCount(i) == IF i = 1 THEN NoCount ELSE i - 1

InitWord(base, cached, i) ==
    [id |-> i,
     addedAt |-> 0,
     reviewLevel |-> InitLevel(base, i),
     reviewCount |-> InitCount(i),
     nextReviewDate |-> 0,
     lastReviewedAt |-> Null,
     todayImage |-> IF i \in cached THEN 1 ELSE NoImage,
     todayImageDate |-> IF i \in cached THEN TodayStr(0) ELSE NoDate]

\* the words that may start with an image cached for the first day
OddWords == {i \in WordIds : i % 2 = 1}

\* An active session reads the levels and never the image cache, a passive
\* one the cache and never the levels: each draws the input it reads.
InitStore ==
    \/ /\ sessMode = "active"
       /\ \E base \in 0..Len(INTERVALS) :
              words = [i \in WordIds |-> InitWord(base, {}, i)]
    \/ /\ sessMode = "passive"
       /\ \E cached \in {{}, OddWords} :
              words = [i \in WordIds |-> InitWord(0, cached, i)]

\* ReviewSession mounted with props (words, mode); the first run of the
\* playback effect finds isPlaying false
InitSession ==
    /\ \E n \in 0..NumWords : sessionWords = [i \in 1..n |-> GetWords(words)[i]]
    /\ currentIndex = 0
    /\ isPlaying = FALSE
    /\ showImage = FALSE
    /\ currentImage = NoImage
    /\ loadingImage = FALSE
    /\ timeoutRef = NoTimer
    /\ isPlayingRef = FALSE
    /\ mountedRef = TRUE
    /\ seqs = {}
    /\ fills = EmptyBag
    /\ completions = <<>>
    /\ grades = 0

\* PetState: the stage and the experience points
Pet(stage, xp) == [stage |-> stage, xp |-> xp]

\* INITIAL_PET, an egg without experience
INITIAL_PET == Pet(0, 0)

\* the host when nothing of it is suspended
InitHost ==
    /\ petCalls = {}
    /\ stats = [date |-> TodayStr(0), reviewSessionDone |-> FALSE]
    /\ lookups = {}

\* getPetState(): the initial egg, or a saved egg about to hatch (the
\* active sessions draw it)
InitPet ==
    \/ pet = INITIAL_PET
    \/ sessMode = "active" /\ pet = Pet(0, 101)

InitFor(mode) ==
    /\ sessMode = mode
    /\ InitStore
    /\ now = 0
    /\ InitSession
    /\ lastOp = "mount"
    /\ sched = NoCall
    /\ InitPet
    /\ InitHost

Init == \E mode \in Modes : InitFor(mode)

---------------------------------------------------------------------------
(* ReviewSession.tsx: the playback effect and the passive card sequence *)

\* A suspended runPassiveSequence call: where it waits (pc), the word it was
\* given, the cursor its closure holds (idx) and the image it resolved (img).
\*   "gen"    await generateCardImage(...)      line 101
\*   "speak1" await speak(word.word)            line 105
\*   "wait1"  await wait(500)                   line 108
\*   "load"   await loadImage(imgUrl)           line 115
\*   "speak2" await speak(word.word)            line 118
\*   "wait2"  await wait(2500)                  line 122
\* and a suspended load() of startSequence's active branch:
\*   "aload"  await generateCardImage(...)      line 141
\* Its handleNext, and through it onComplete, are those of the render that
\* started it, so it also holds the pet that render saw (pet).
CardSeq(id, pc, w, idx, img) ==
    [id |-> id, pc |-> pc, w |-> w, idx |-> idx, img |-> img, pet |-> pet]

WaitPcs == {"wait1", "wait2"}

\* the suspension points at which a narration is being spoken
SpeakPcs == {"speak1", "speak2"}

\* an id no live sequence has
FreshId(S) == CHOOSE i \in 1..(MaxSeqs + 1) : \A s \in S : s.id # i

\* clearTimeout(timeoutRef.current): the promise of that wait never resolves
ClearTimer(S) == {s \in S : ~(s.pc \in WaitPcs /\ s.id = timeoutRef)}

\* window.speechSynthesis.cancel() after isPlayingRef.current = false: the
\* narration being spoken ends with an error event, its speak() resolves and
\* the liveness test that follows returns (the event is delivered before the
\* learner's next input)
CancelSpeech(S) == {s \in S : s.pc \notin SpeakPcs}

\* !imgUrl || word.todayImageDate !== today
NeedsImage(word, today) ==
    word.todayImage = NoImage \/ word.todayImageDate # today

\* The state after the effect of useEffect([isPlaying, currentIndex]) has
\* run for playing state P and cursor I, S being the sequences alive: its
\* previous cleanup clears the timer; with P it sets isPlayingRef and calls
\* startSequence, which in passive mode enters runPassiveSequence for the
\* word under the cursor up to its first await and in active mode load(),
\* which shows a stored image at once (whatever its date) and narrates, or
\* awaits a generated one; without P it clears the ref and cancels the
\* narration.
Effect(P, I, S) ==
    LET S1 == ClearTimer(S)
        today == TodayStr(now)
    IN  IF P /\ I < Len(sessionWords) /\ sessMode = "active"
        THEN LET word == sessionWords[I + 1]
                 s == CardSeq(FreshId(S1), "aload", word.id, I, NoImage)
             IN  IF word.todayImage = NoImage
                 THEN [ref |-> TRUE, seqs |-> S1 \cup {s}, fills |-> fills,
                       show |-> FALSE, img |-> currentImage, loading |-> TRUE]
                 ELSE [ref |-> TRUE, seqs |-> S1, fills |-> fills,
                       show |-> FALSE, img |-> word.todayImage, loading |-> FALSE]
        ELSE IF P /\ I < Len(sessionWords)
        THEN LET word == sessionWords[I + 1]
                 regen == NeedsImage(word, today)
                 s == CardSeq(FreshId(S1), IF regen THEN "gen" ELSE "speak1",
                          word.id, I, IF regen THEN NoImage ELSE word.todayImage)
             IN  [ref |-> TRUE,
                  seqs |-> S1 \cup {s},
                  fills |-> IF regen
                            THEN fills (+) SetToBag({[w |-> word.id, day |-> today]})
                            ELSE fills,
                  show |-> FALSE, img |-> NoImage, loading |-> TRUE]
        ELSE [ref |-> P, seqs |-> IF P THEN S1 ELSE CancelSpeech(S1),
              fills |-> fills,
              show |-> showImage, img |-> currentImage, loading |-> loadingImage]

\* the effect for cursor I, when it starts a sequence, finds room for it and
\* for the cache fill it issues
Room(I, S) ==
    (I < Len(sessionWords) /\ sessMode = "passive") =>
        /\ Cardinality(ClearTimer(S)) < MaxSeqs
        /\ NeedsImage(sessionWords[I + 1], TodayStr(now)) =>
               BagCardinality(fills) < MaxFills

ApplyEffect(P, I, S) ==
    LET e == Effect(P, I, S)
    IN  /\ isPlayingRef' = e.ref
        /\ seqs' = e.seqs
        /\ fills' = e.fills
        /\ showImage' = e.show
        /\ currentImage' = e.img
        /\ loadingImage' = e.loading
        /\ timeoutRef' = NoTimer

\* The component is removed from the tree: the effect cleanups run
\* (clearTimeout, mountedRef.current = false), pending state updates are
\* dropped and the per-card display state goes with the component.
Unmount(S) ==
    /\ mountedRef' = FALSE
    /\ seqs' = ClearTimer(S)
    /\ timeoutRef' = NoTimer
    /\ showImage' = FALSE
    /\ currentImage' = NoImage
    /\ loadingImage' = FALSE
    /\ UNCHANGED <<isPlayingRef, fills, currentIndex>>

\* checkPetEvolution as called from a render that saw pet p: when p crosses
\* a threshold it awaits the new sprite and a reaction and then saves
\* {...p, stage: newStage, ...}
EvolvedStage(p) ==
    IF p.stage = 0 /\ p.xp > 100 THEN 1
    ELSE IF p.stage = 1 /\ p.xp > 500 THEN 2
    ELSE IF p.stage = 2 /\ p.xp > 1500 THEN 3
    ELSE p.stage

CheckPetEvolution(p) ==
    IF EvolvedStage(p) # p.stage
    THEN {[kind |-> "evolve", snap |-> p, stage |-> EvolvedStage(p)]}
    ELSE {}

\* updatePet({ ...pet, xp: pet.xp + xp }) of a render that saw pet p
Rewarded(p, xp) == [p EXCEPT !.xp = p.xp + xp]

\* getDailyStats(): the stored stats when they are today's, else fresh ones
GetDailyStats == IF stats.date = TodayStr(now)
                 THEN stats
                 ELSE [date |-> TodayStr(now), reviewSessionDone |-> FALSE]

\* handleReviewComplete(xp) of a render that saw pet p, up to its await:
\* the reward is saved, the day's session marked done, the evolution checked
\* and the reaction requested (setMode(HOME) is the unmount)
HandleReviewComplete(p, xp) ==
    /\ pet' = Rewarded(p, xp)
    /\ stats' = [GetDailyStats EXCEPT !.reviewSessionDone = TRUE]
    /\ petCalls' = petCalls \cup CheckPetEvolution(p)
                            \cup {[kind |-> "react", snap |-> p, stage |-> p.stage]}

\* finishSession: setIsPlaying(false); onComplete(50). The host's
\* handleReviewComplete leaves REVIEW mode in the same task, so the session
\* unmounts.
FinishSession(p, S) ==
    /\ isPlaying' = FALSE
    /\ completions' = Append(completions, 50)
    /\ HandleReviewComplete(p, 50)
    /\ Unmount(S)

\* variant: the cursor is compared with the length, not the last index
HandleNextOffByOne(idx, p, S) ==
    IF idx < Len(sessionWords)
    THEN /\ currentIndex' = currentIndex + 1
         /\ ApplyEffect(isPlaying, currentIndex + 1, S)
         /\ UNCHANGED <<isPlaying, mountedRef, completions, pet, petCalls, stats>>
    ELSE FinishSession(p, S)

\* handleNext as seen by a closure holding cursor idx and pet p; S: the live
\* sequences
HandleNext(idx, p, S) ==
    IF idx < Len(sessionWords) - 1
    THEN /\ currentIndex' = currentIndex + 1
         /\ ApplyEffect(isPlaying, currentIndex + 1, S)
         /\ UNCHANGED <<isPlaying, mountedRef, completions, pet, petCalls, stats>>
    ELSE FinishSession(p, S)

---------------------------------------------------------------------------
(* ReviewSession.tsx: the controls *)

\* the header and the controls are rendered only while there is a current word
Rendered == mountedRef /\ HasCurrentWord

\* togglePlay: the play/pause button, passive mode only
TogglePlay ==
    /\ Rendered
    /\ sessMode = "passive"
    /\ isPlaying \/ Room(currentIndex, seqs)
    /\ isPlaying' = ~isPlaying
    /\ ApplyEffect(~isPlaying, currentIndex, seqs)
    /\ lastOp' = IF isPlaying THEN "pause" ELSE "play"
    /\ UNCHANGED <<words, now, sessMode, sessionWords, currentIndex, mountedRef,
                   completions, grades, sched,
                   hostVars>>

\* The Fisher-Yates loop of shuffleQueue over a (1-indexed) sequence a:
\* for i = Len(a)-1 down to 1 (0-based), swap a[i] and a[j], j = js[i] in 0..i
RECURSIVE FisherYates(_, _, _)
FisherYates(a, i, js) ==
    IF i <= 0 THEN a
    ELSE LET j == js[i]
             b == [a EXCEPT ![i + 1] = a[j + 1], ![j + 1] = a[i + 1]]
         IN  FisherYates(b, i - 1, js)

\* the draws Math.floor(Math.random() * (i + 1)) for i = 1..n-1
Draws(n) == {js \in [1..(n - 1) -> 0..(n - 1)] : \A i \in 1..(n - 1) : js[i] <= i}

\* variant: the slices taken at the cursor, so the current card is reshuffled
ShuffledFromCursor(queue, index, js) ==
    LET done == SubSeq(queue, 1, index)
        upcoming == SubSeq(queue, index + 1, Len(queue))
    IN  done \o FisherYates(upcoming, Len(upcoming) - 2, js)

\* shuffleQueue's new queue for the draws js
Shuffled(queue, index, js) ==
    LET done == SubSeq(queue, 1, index + 1)
        upcoming == SubSeq(queue, index + 2, Len(queue))
    IN  done \o FisherYates(upcoming, Len(upcoming) - 1, js)

\* variant: the queue is reshuffled and playback left as it was
ShuffleQueueKeepsPlaying ==
    /\ Rendered
    /\ lastOp' = "shuffle"
    /\ IF currentIndex >= Len(sessionWords) - 1
       THEN UNCHANGED sessionWords
       ELSE \E js \in Draws(Len(sessionWords) - 1 - currentIndex) :
                sessionWords' = Shuffled(sessionWords, currentIndex, js)
    /\ UNCHANGED <<isPlaying, isPlayingRef, seqs, fills, showImage,
                   currentImage, loadingImage, timeoutRef>>
    /\ UNCHANGED <<words, now, sessMode, currentIndex, mountedRef, completions,
                   grades, sched,
                   hostVars>>

\* shuffleQueue: returns at once when the cursor is on the last entry;
\* otherwise stores the reshuffled queue and setIsPlaying(false), whose
\* effect (when playback was on) clears the ref, the narration and the timer
ShuffleQueue ==
    /\ Rendered
    /\ lastOp' = "shuffle"
    /\ IF currentIndex >= Len(sessionWords) - 1
       THEN UNCHANGED <<sessionWords, isPlaying, isPlayingRef, seqs, fills,
                        showImage, currentImage, loadingImage, timeoutRef>>
       ELSE /\ \E js \in Draws(Len(sessionWords) - 1 - currentIndex) :
                  sessionWords' = Shuffled(sessionWords, currentIndex, js)
            /\ isPlaying' = FALSE
            /\ IF isPlaying
               THEN ApplyEffect(FALSE, currentIndex, seqs)
               ELSE UNCHANGED <<isPlayingRef, seqs, fills, showImage,
                                currentImage, loadingImage, timeoutRef>>
    /\ UNCHANGED <<words, now, sessMode, currentIndex, mountedRef, completions,
                   grades, sched,
                   hostVars>>

\* handleRate(correct): the two grading buttons, active mode only
HandleRate(correct) ==
    /\ Rendered
    /\ sessMode = "active"
    /\ LET r == CalculateNextReview(CurrentWord.reviewLevel, correct, now)
       IN  words' = UpdateWord(words, CurrentWord.id,
                               [reviewLevel |-> r.level,
                                nextReviewDate |-> r.date,
                                lastReviewedAt |-> now])
    /\ HandleNext(currentIndex, pet, seqs)
    /\ grades' = grades + 1
    /\ lastOp' = "rate"
    /\ UNCHANGED <<now, sessMode, sessionWords, sched, lookups>>

\* the Exit control: onComplete(0); the host's handleReviewComplete(0)
\* leaves REVIEW mode
Exit ==
    /\ Rendered
    /\ completions' = Append(completions, 0)
    /\ HandleReviewComplete(pet, 0)
    /\ Unmount(seqs)
    /\ lastOp' = "exit"
    /\ UNCHANGED <<words, now, sessMode, sessionWords, isPlaying, grades, sched, lookups>>

\* the host's navigation dock: setMode(HOME) without any onComplete
NavAway ==
    /\ mountedRef
    /\ Unmount(seqs)
    /\ lastOp' = "nav"
    /\ UNCHANGED <<words, now, sessMode, sessionWords, isPlaying, completions,
                   grades, sched,
                   hostVars>>

---------------------------------------------------------------------------
(* ReviewSession.tsx: the steps of a suspended card sequence *)

\* variant: the test without mountedRef
AbandonedIgnoringMount == ~isPlayingRef

\* the liveness test made after an await: !mountedRef.current || !isPlayingRef.current
Abandoned == ~mountedRef \/ ~isPlayingRef

Moved(s, pc) == (seqs \ {s}) \cup {[s EXCEPT !.pc = pc]}

\* The timer of s can be the next to fire. timeoutRef names the timer set
\* last, so when it is that of s every other pending timer was set earlier
\* and fires first, unless it is a 2500ms timer and that of s a 500ms one.
TimerDue(s) ==
    \A t \in seqs \ {s} :
        (t.pc \in WaitPcs /\ timeoutRef = s.id) =>
            (s.pc = "wait1" /\ t.pc = "wait2")

\* the timer of s fired, so timeoutRef no longer names a pending timer
Fired(s) == IF timeoutRef = s.id THEN NoTimer ELSE timeoutRef

\* A pending generateCardImage resolves with url. In a passive sequence
\* (line 101) speak(word.word) starts the first narration (when unmounted
\* speak resolves at once and the test of line 106 returns). In load() of
\* active mode (line 141) the image is stored as today's and, if still
\* mounted, shown, and the headword narrated.
GenResolve(s, url) ==
    /\ s.pc \in {"gen", "aload"}
    /\ IF s.pc = "gen"
       THEN /\ seqs' = IF mountedRef
                       THEN (seqs \ {s}) \cup {[s EXCEPT !.pc = "speak1", !.img = url]}
                       ELSE seqs \ {s}
            /\ UNCHANGED <<words, currentImage, loadingImage>>
       ELSE /\ seqs' = seqs \ {s}
            /\ words' = UpdateWord(words, s.w, [todayImage |-> url,
                                                todayImageDate |-> TodayStr(now)])
            /\ currentImage' = IF mountedRef THEN url ELSE currentImage
            /\ loadingImage' = IF mountedRef THEN FALSE ELSE loadingImage
    /\ lastOp' = "gen"
    /\ UNCHANGED <<now, sessMode, sessionWords, currentIndex, isPlaying,
                   showImage, timeoutRef,
                   isPlayingRef, mountedRef, fills, completions, grades, sched,
                   hostVars>>

\* variant: the image is revealed as soon as the first narration ends,
\* without the 500ms pause
Speak1EndSkipsPause(s) ==
    /\ s.pc = "speak1"
    /\ IF Abandoned
       THEN seqs' = seqs \ {s}
            /\ UNCHANGED <<showImage, currentImage, loadingImage>>
       ELSE /\ seqs' = Moved(s, "load")
            /\ loadingImage' = FALSE
            /\ currentImage' = s.img
            /\ showImage' = TRUE
    /\ lastOp' = "speak1"
    /\ UNCHANGED <<words, now, sessMode, sessionWords, currentIndex, isPlaying,
                   timeoutRef, isPlayingRef,
                   mountedRef, fills, completions, grades, sched,
                   hostVars>>

\* the first narration ended (onend, or onerror as after cancel()): line 106,
\* then wait(500) sets the timer
Speak1End(s) ==
    /\ s.pc = "speak1"
    /\ IF Abandoned
       THEN seqs' = seqs \ {s} /\ UNCHANGED timeoutRef
       ELSE seqs' = Moved(s, "wait1") /\ timeoutRef' = s.id
    /\ lastOp' = "speak1"
    /\ UNCHANGED <<words, now, sessMode, sessionWords, currentIndex, isPlaying,
                   showImage, currentImage, loadingImage, isPlayingRef,
                   mountedRef, fills, completions, grades, sched,
                   hostVars>>

\* the 500ms timer fired: line 109, then the image is shown and loadImage awaited
Timer1(s) ==
    /\ s.pc = "wait1"
    /\ TimerDue(s)
    /\ timeoutRef' = Fired(s)
    /\ IF Abandoned
       THEN seqs' = seqs \ {s}
            /\ UNCHANGED <<showImage, currentImage, loadingImage>>
       ELSE /\ seqs' = Moved(s, "load")
            /\ loadingImage' = FALSE
            /\ currentImage' = s.img
            /\ showImage' = TRUE
    /\ lastOp' = "timer1"
    /\ UNCHANGED <<words, now, sessMode, sessionWords, currentIndex, isPlaying,
                   isPlayingRef, mountedRef, fills, completions, grades, sched,
                   hostVars>>

\* loadImage resolved (onload or onerror); speak(word.word) starts the second
\* narration (when unmounted it resolves at once and line 119 returns)
LoadDone(s) ==
    /\ s.pc = "load"
    /\ seqs' = IF mountedRef THEN Moved(s, "speak2") ELSE seqs \ {s}
    /\ lastOp' = "load"
    /\ UNCHANGED <<words, now, sessMode, sessionWords, currentIndex, isPlaying,
                   showImage, currentImage, loadingImage, timeoutRef,
                   isPlayingRef, mountedRef, fills, completions, grades, sched,
                   hostVars>>

\* the second narration ended: line 119, then wait(2500) sets the timer
Speak2End(s) ==
    /\ s.pc = "speak2"
    /\ IF Abandoned
       THEN seqs' = seqs \ {s} /\ UNCHANGED timeoutRef
       ELSE seqs' = Moved(s, "wait2") /\ timeoutRef' = s.id
    /\ lastOp' = "speak2"
    /\ UNCHANGED <<words, now, sessMode, sessionWords, currentIndex, isPlaying,
                   showImage, currentImage, loadingImage, isPlayingRef,
                   mountedRef, fills, completions, grades, sched,
                   hostVars>>

\* the 2500ms timer fired: line 123, then handleNext() of the closure (auto-advance)
Timer2(s) ==
    /\ s.pc = "wait2"
    /\ TimerDue(s)
    /\ IF Abandoned
       THEN /\ seqs' = seqs \ {s}
            /\ timeoutRef' = Fired(s)
            /\ UNCHANGED <<currentIndex, isPlaying, isPlayingRef, mountedRef,
                           fills, showImage, currentImage, loadingImage,
                           completions, pet, petCalls, stats>>
       ELSE /\ s.idx < Len(sessionWords) - 1 => Room(currentIndex + 1, seqs \ {s})
            /\ HandleNext(s.idx, s.pet, seqs \ {s})
    /\ lastOp' = IF Abandoned THEN "timer2" ELSE "advance"
    /\ UNCHANGED <<words, now, sessMode, sessionWords, grades, sched, lookups>>

\* variant: the result of the generation is dropped when the session was
\* paused or torn down meanwhile
FillResolveIfLive(f, url) ==
    /\ words' = IF Abandoned
                THEN words
                ELSE UpdateWord(words, f.w,
                                [todayImage |-> url,
                                 todayImageDate |-> IF f.day = NoDate
                                                    THEN TodayStr(now) ELSE f.day])
    /\ fills' = fills (-) SetToBag({f})
    /\ lastOp' = "fill"
    /\ UNCHANGED <<now, sessMode, sessionWords, currentIndex, isPlaying,
                   showImage, currentImage, loadingImage, timeoutRef,
                   isPlayingRef, mountedRef, seqs, completions, grades, sched,
                   hostVars>>

\* a generateCardImage(...).then(url => updateWord(word.id, {todayImage: url,
\* todayImageDate: today})) resolves with url; today is the day the sequence
\* started (line 94), or for the dictionary's fill the day of the resolution
FillResolve(f, url) ==
    /\ words' = UpdateWord(words, f.w,
                           [todayImage |-> url,
                            todayImageDate |-> IF f.day = NoDate
                                               THEN TodayStr(now) ELSE f.day])
    /\ fills' = fills (-) SetToBag({f})
    /\ lastOp' = "fill"
    /\ UNCHANGED <<now, sessMode, sessionWords, currentIndex, isPlaying,
                   showImage, currentImage, loadingImage, timeoutRef,
                   isPlayingRef, mountedRef, seqs, completions, grades, sched,
                   hostVars>>

\* A suspended pet update of the host resolves: the reaction of
\* handleReviewComplete (line 168) saves { ...pet, dailyQuote, mood } and the
\* evolution of checkPetEvolution (line 148) { ...pet, stage: newStage, ... },
\* pet being the one the call closed over.
PetResolve(c) ==
    /\ pet' = [c.snap EXCEPT !.stage = c.stage]
    /\ petCalls' = petCalls \ {c}
    /\ lastOp' = c.kind
    /\ UNCHANGED <<words, now, sessVars, sched, stats, lookups>>

\* time passes (nothing reads the clock once the session is gone)
Tick ==
    /\ mountedRef
    /\ now < MaxClock
    /\ now' = now + 1
    /\ UNCHANGED <<words, sessVars, lastOp, sched, hostVars>>

---------------------------------------------------------------------------
(* The session specification *)

Gen == \E s \in seqs, url \in Images : GenResolve(s, url)

Speak1 == \E s \in seqs : Speak1End(s)

Reveal == \E s \in seqs : Timer1(s)

Loaded == \E s \in seqs : LoadDone(s)

Speak2 == \E s \in seqs : Speak2End(s)

Dwell == \E s \in seqs : Timer2(s)

Fill == \E f \in BagToSet(fills), url \in Images : FillResolve(f, url)

Rate == \E correct \in BOOLEAN : HandleRate(correct)

PetUpdate == \E c \in petCalls : PetResolve(c)

Next ==
    \/ TogglePlay
    \/ ShuffleQueue
    \/ Rate
    \/ Exit
    \/ NavAway
    \/ Gen
    \/ Speak1
    \/ Reveal
    \/ Loaded
    \/ Speak2
    \/ Dwell
    \/ Fill
    \/ PetUpdate
    \/ Tick

Spec == Init /\ [][Next]_vars

---------------------------------------------------------------------------
(* The active-mode sessions alone: the play control, and with it every card  *)
(* sequence and cache fill, exists in passive mode only                      *)

InitActive == InitFor("active")

NextActive ==
    \/ ShuffleQueue
    \/ Rate
    \/ Exit
    \/ NavAway
    \/ PetUpdate
    \/ Tick

ActiveSpec == InitActive /\ [][NextActive]_vars

---------------------------------------------------------------------------
(* The passive-mode sessions alone, every pending call resolving: a promise  *)
(* of speak, wait, loadImage or generateCardImage that can be settled is     *)
(* settled in the end                                                        *)

InitPassive == InitFor("passive")

NextPassive ==
    \/ TogglePlay
    \/ ShuffleQueue
    \/ Exit
    \/ NavAway
    \/ Gen
    \/ Speak1
    \/ Reveal
    \/ Loaded
    \/ Speak2
    \/ Dwell
    \/ Fill
    \/ PetUpdate
    \/ Tick

\* every narration, timer, image load and image generation resolves
Resolving ==
    /\ WF_vars(Gen)
    /\ WF_vars(Speak1)
    /\ WF_vars(Reveal)
    /\ WF_vars(Loaded)
    /\ WF_vars(Speak2)
    /\ WF_vars(Dwell)
    /\ WF_vars(Fill)

PlaySpec == InitPassive /\ [][NextPassive]_vars /\ Resolving

---------------------------------------------------------------------------
(* The scheduler alone: calls of calculateNextReview on drawn arguments *)

LevelInputs == (0 - MinLevelIn)..MaxLevelIn

Call(level, correct) == [level |-> level, correct |-> correct, at |-> 0, out |-> <<>>]

InitSched ==
    /\ words = [i \in WordIds |-> InitWord(0, {}, i)]
    /\ now = 0
    /\ sessMode = "active"
    /\ sessionWords = <<>>
    /\ currentIndex = 0
    /\ isPlaying = FALSE
    /\ showImage = FALSE
    /\ currentImage = NoImage
    /\ loadingImage = FALSE
    /\ timeoutRef = NoTimer
    /\ isPlayingRef = FALSE
    /\ mountedRef = TRUE
    /\ seqs = {}
    /\ fills = EmptyBag
    /\ completions = <<>>
    /\ grades = 0
    /\ lastOp = "mount"
    /\ pet = INITIAL_PET
    /\ InitHost
    /\ \E level \in LevelInputs, correct \in BOOLEAN : sched = Call(level, correct)

\* calculateNextReview(level, correct) is evaluated at the current time
Calculate ==
    /\ sched.out = <<>>
    /\ sched' = [sched EXCEPT !.at = now,
                              !.out = <<CalculateNextReview(sched.level, sched.correct, now)>>]
    /\ UNCHANGED <<words, now, sessVars, lastOp, hostVars>>

\* the next call's arguments
NextCall ==
    /\ sched.out # <<>>
    /\ \E level \in LevelInputs, correct \in BOOLEAN : sched' = Call(level, correct)
    /\ UNCHANGED <<words, now, sessVars, lastOp, hostVars>>

NextSched ==
    \/ Calculate
    \/ NextCall
    \/ Tick

SchedSpec == InitSched /\ [][NextSched]_vars

---------------------------------------------------------------------------
(* The host's review preparation alone: App.tsx, startReview on drawn stores *)

\* arr.filter(Keep), Keep a set of positions
RECURSIVE Filter(_, _)
Filter(arr, Keep) ==
    IF arr = <<>> THEN <<>>
    ELSE LET rest == Filter(SubSeq(arr, 1, Len(arr) - 1), Keep)
         IN  IF Len(arr) \in Keep THEN Append(rest, arr[Len(arr)]) ELSE rest

\* the orders arr.sort(() => 0.5 - Math.random()) may leave arr in
Orders(arr) ==
    {[i \in DOMAIN arr |-> arr[f[i]]] :
        f \in {g \in [DOMAIN arr -> DOMAIN arr] :
                  \A i, j \in DOMAIN arr : i # j => g[i] # g[j]}}

\* the words added today
NewWords(all, t) ==
    Filter(all, {k \in DOMAIN all : TodayStr(all[k].addedAt) = TodayStr(t)})

\* w.nextReviewDate <= Date.now() && w.reviewLevel > 0
DueWords(all, t) ==
    Filter(all, {k \in DOMAIN all : all[k].nextReviewDate <= t /\ all[k].reviewLevel > 0})

\* the fallback when nothing is due: the words above level 0 in a random
\* order, the first five of them
Fallbacks(all) ==
    LET learnt == Filter(all, {k \in DOMAIN all : all[k].reviewLevel > 0})
    IN  {SubSeq(o, 1, Min(5, Len(o))) : o \in Orders(learnt)}

\* the selections startReview(type) may make at time t
Selections(type, all, t) ==
    IF type = "new" THEN {NewWords(all, t)}
    ELSE IF DueWords(all, t) # <<>> THEN {DueWords(all, t)}
    ELSE Fallbacks(all)

\* a ReviewSession mounted with props (selection, mode): a new component,
\* with its own state and refs
Mounted(selection, mode) ==
    /\ sessMode' = mode
    /\ sessionWords' = selection
    /\ currentIndex' = 0
    /\ isPlaying' = FALSE
    /\ showImage' = FALSE
    /\ currentImage' = NoImage
    /\ loadingImage' = FALSE
    /\ timeoutRef' = NoTimer
    /\ isPlayingRef' = FALSE
    /\ mountedRef' = TRUE
    /\ completions' = <<>>
    /\ grades' = 0

\* startReview(type) from the home screen (every sequence of an earlier
\* session has run out): the mode is set; an empty selection is refused
\* with an alert, any other is handed to a new session
StartReview(type) ==
    /\ ~mountedRef
    /\ seqs = {}
    /\ lastOp' = type
    /\ \E selection \in Selections(type, GetWords(words), now) :
           IF selection = <<>>
           THEN /\ sessMode' = (IF type = "new" THEN "passive" ELSE "active")
                /\ UNCHANGED <<sessionWords, currentIndex, isPlaying, showImage,
                               currentImage, loadingImage, timeoutRef,
                               isPlayingRef, mountedRef, completions, grades>>
           ELSE Mounted(selection, IF type = "new" THEN "passive" ELSE "active")
    /\ UNCHANGED <<words, now, seqs, fills, sched, hostVars>>

\* time passes on the home screen
Wait ==
    /\ ~mountedRef
    /\ now < MaxClock
    /\ now' = now + 1
    /\ lastOp' = "wait"
    /\ UNCHANGED <<words, sessVars, sched, hostVars>>

\* a stored word whose review falls due at tick due
DueWord(base, due, i) == [InitWord(base, {}, i) EXCEPT !.nextReviewDate = due]

\* a store of words of every level, falling due before, within or after the
\* span of the clock, and the home screen
InitSelect ==
    /\ \E base \in 0..Len(INTERVALS), due \in [WordIds -> 0..(MaxClock + 1)] :
           words = [i \in WordIds |-> DueWord(base, due[i], i)]
    /\ now = 0
    /\ sessMode = "active"
    /\ sessionWords = <<>>
    /\ currentIndex = 0
    /\ isPlaying = FALSE
    /\ showImage = FALSE
    /\ currentImage = NoImage
    /\ loadingImage = FALSE
    /\ timeoutRef = NoTimer
    /\ isPlayingRef = FALSE
    /\ mountedRef = FALSE
    /\ seqs = {}
    /\ fills = EmptyBag
    /\ completions = <<>>
    /\ grades = 0
    /\ lastOp = "home"
    /\ sched = NoCall
    /\ pet = INITIAL_PET
    /\ InitHost

Review == \E type \in {"new", "due"} : StartReview(type)

NextSelect ==
    \/ Review
    \/ NavAway
    \/ Wait
    \/ Tick

SelectSpec == InitSelect /\ [][NextSelect]_vars

---------------------------------------------------------------------------
(* The store from empty: dictionary lookups (Dictionary.tsx, handleSearch)  *)
(* and sessions of either mode over the words stored so far                 *)

Headwords == 1..NumHeadwords

\* handleSearch(searchTerm) on the dictionary screen, up to its await of
\* queryDictionary; h is the headword the query will identify. The call
\* keeps the onWordAdded of its render, and with it that render's pet.
Search(h) ==
    /\ ~mountedRef
    /\ Cardinality(lookups) < MaxLookups
    /\ Cardinality(petCalls) < MaxPetCalls
    /\ pet.xp + 10 <= MaxLookupXp
    /\ lookups' = lookups \cup {[h |-> h, pet |-> pet]}
    /\ lastOp' = "search"
    /\ UNCHANGED <<words, now, sessVars, sched, pet, petCalls, stats>>

\* variant: the new word starts one level below the table
NewWordBelowTable(h, t) ==
    [id |-> h, addedAt |-> t, lastReviewedAt |-> Null, reviewLevel |-> 0 - 1,
     reviewCount |-> 0, nextReviewDate |-> t]

\* the WordEntry handleSearch builds at time t
NewWord(h, t) ==
    [id |-> h, addedAt |-> t, lastReviewedAt |-> Null, reviewLevel |-> 0,
     reviewCount |-> 0, nextReviewDate |-> t]

\* queryDictionary resolves. With data the word is saved, its image
\* requested (the fill is addressed to newWord.id, which is not the stored id
\* when the headword was stored already), the day's stats rewritten and
\* handleWordAdded called: 10 XP and the evolution check. Without data, or on
\* an error, nothing is stored.
LookupResolve(l, found) ==
    /\ lookups' = lookups \ {l}
    /\ lastOp' = "lookup"
    /\ IF found
       THEN /\ BagCardinality(fills) < MaxFills
            /\ words' = SaveWord(words, NewWord(l.h, now))
            /\ fills' = fills (+) SetToBag({[w |-> IF FindIndex(words, l.h) # 0
                                                   THEN FreshUuid ELSE l.h,
                                             day |-> NoDate]})
            /\ stats' = GetDailyStats
            /\ pet' = Rewarded(l.pet, 10)
            /\ petCalls' = petCalls \cup CheckPetEvolution(l.pet)
       ELSE UNCHANGED <<words, fills, stats, pet, petCalls>>
    /\ UNCHANGED <<now, sessMode, sessionWords, currentIndex, isPlaying,
                   showImage, currentImage, loadingImage, timeoutRef,
                   isPlayingRef, mountedRef, seqs, completions, grades, sched>>

\* a ReviewSession mounted over the first n stored words, in either mode
\* (every sequence of an earlier session has run out)
Mount(mode, n) ==
    /\ ~mountedRef
    /\ seqs = {}
    /\ Cardinality(petCalls) < MaxPetCalls
    /\ pet.xp + 50 <= MaxXp
    /\ Mounted(SubSeq(GetWords(words), 1, n), mode)
    /\ lastOp' = "mount"
    /\ UNCHANGED <<words, now, seqs, fills, sched, hostVars>>

\* nothing stored, the home screen, the initial pet
InitEmpty ==
    /\ words = <<>>
    /\ now = 0
    /\ sessMode = "active"
    /\ sessionWords = <<>>
    /\ currentIndex = 0
    /\ isPlaying = FALSE
    /\ showImage = FALSE
    /\ currentImage = NoImage
    /\ loadingImage = FALSE
    /\ timeoutRef = NoTimer
    /\ isPlayingRef = FALSE
    /\ mountedRef = FALSE
    /\ seqs = {}
    /\ fills = EmptyBag
    /\ completions = <<>>
    /\ grades = 0
    /\ lastOp = "home"
    /\ sched = NoCall
    /\ pet = INITIAL_PET
    /\ InitHost

Query == \E h \in Headwords : Search(h)

Lookup == \E l \in lookups, found \in BOOLEAN : LookupResolve(l, found)

Start == \E mode \in Modes, n \in 0..Len(words) : Mount(mode, n)

NextStore ==
    \/ Query
    \/ Lookup
    \/ Start
    \/ TogglePlay
    \/ ShuffleQueue
    \/ Rate
    \/ Exit
    \/ NavAway
    \/ Gen
    \/ Speak1
    \/ Reveal
    \/ Loaded
    \/ Speak2
    \/ Dwell
    \/ Fill
    \/ PetUpdate
    \/ Wait
    \/ Tick

StoreSpec == InitEmpty /\ [][NextStore]_vars

---------------------------------------------------------------------------
(* The app as its screens offer it: the home screen's two review buttons   *)
(* (App.tsx, startReview), the dictionary and the session they start, from *)
(* an empty store or from one brought along from earlier use               *)

\* a stored word already one level up and due, as an earlier use of the app
\* on this browser may have left it in localStorage
ImportedWord ==
    [id |-> 1, addedAt |-> 0, reviewLevel |-> 1, reviewCount |-> 1,
     nextReviewDate |-> 0, lastReviewedAt |-> 0,
     todayImage |-> NoImage, todayImageDate |-> NoDate]

\* the home screen over an empty store or over the store brought along
InitApp ==
    /\ words \in {<<>>, <<ImportedWord>>}
    /\ now = 0
    /\ sessMode = "active"
    /\ sessionWords = <<>>
    /\ currentIndex = 0
    /\ isPlaying = FALSE
    /\ showImage = FALSE
    /\ currentImage = NoImage
    /\ loadingImage = FALSE
    /\ timeoutRef = NoTimer
    /\ isPlayingRef = FALSE
    /\ mountedRef = FALSE
    /\ seqs = {}
    /\ fills = EmptyBag
    /\ completions = <<>>
    /\ grades = 0
    /\ lastOp = "home"
    /\ sched = NoCall
    /\ pet = INITIAL_PET
    /\ InitHost

\* one of the two review buttons of the home screen, pressed once the
\* lookups, image fills and pet updates under way have resolved (and no
\* review is started whose reward would take the XP above MaxXp)
ReviewButton(type) ==
    /\ pet.xp + 50 <= MaxXp
    /\ petCalls = {}
    /\ lookups = {}
    /\ fills = EmptyBag
    /\ StartReview(type)

NewReview == ReviewButton("new")

DueReview == ReviewButton("due")

\* the learner grades the card shown as recalled
RateCorrect == HandleRate(TRUE)

RateWrong == HandleRate(FALSE)

NextApp ==
    \/ Query
    \/ Lookup
    \/ NewReview
    \/ DueReview
    \/ TogglePlay
    \/ ShuffleQueue
    \/ RateCorrect
    \/ RateWrong
    \/ Exit
    \/ NavAway
    \/ Gen
    \/ Speak1
    \/ Reveal
    \/ Loaded
    \/ Speak2
    \/ Dwell
    \/ Fill
    \/ PetUpdate
    \/ Wait
    \/ Tick

\* Every pending call resolves (promises and timers of the browser), and the
\* learner keeps looking words up, pressing both review buttons and grading
\* the card shown as recalled whenever the screen offers it.
AppFairness ==
    /\ WF_vars(Lookup)
    /\ WF_vars(Gen)
    /\ WF_vars(Speak1)
    /\ WF_vars(Reveal)
    /\ WF_vars(Loaded)
    /\ WF_vars(Speak2)
    /\ WF_vars(Dwell)
    /\ WF_vars(Fill)
    /\ WF_vars(PetUpdate)
    /\ SF_vars(Query)
    /\ SF_vars(NewReview)
    /\ SF_vars(DueReview)
    /\ SF_vars(RateCorrect)

AppSpec == InitApp /\ [][NextApp]_vars /\ AppFairness

---------------------------------------------------------------------------
(* Claims about the scheduler, checked under SchedSpec *)

Called == sched.out # <<>>
Result == sched.out[1]

\* C1: for every currentLevel, calculateNextReview(currentLevel, false)
\* returns level 0 and the current time as the next review date: a failed
\* recall is a full reset, whatever the level was.
C1_FailedRecallResets ==
    (Called /\ ~sched.correct) => Result = [level |-> 0, date |-> sched.at]

\* a failed recall of a level-4 word, graded after the clock has moved
C1_Witness ==
    /\ Called /\ ~sched.correct
    /\ sched.level = 4 /\ sched.at = MaxClock
    /\ Result.level = 0 /\ Result.date = MaxClock

\* the days the claim lists for currentLevel = 0, 1, 2, 3, 4, 5
C2_Days == <<1, 3, 7, 14, 30, 30>>

\* C2: for every currentLevel in 0..5, calculateNextReview(currentLevel, true)
\* returns level min(currentLevel + 1, 5) and a date 1, 3, 7, 14, 30, 30 days
\* after now; at level 5 the level stays 5 with the 30-day interval.
C2_CorrectRecallSteps ==
    (Called /\ sched.correct /\ sched.level \in 0..5) =>
        /\ Result.level = Min(sched.level + 1, 5)
        /\ Result.date = sched.at + C2_Days[sched.level + 1] * TicksPerDay

\* a correct recall at the cap
C2_Witness ==
    /\ Called /\ sched.correct /\ sched.level = 5 /\ sched.at = MaxClock
    /\ Result = [level |-> 5, date |-> MaxClock + 30 * TicksPerDay]

\* C16: a negative currentLevel is treated as 0: a correct recall returns
\* level 1 with the 1-day interval, and no call returns a negative level.
C16_NegativeLevelClamped ==
    Called =>
        /\ Result.level >= 0
        /\ (sched.correct /\ sched.level < 0) =>
               Result = [level |-> 1, date |-> sched.at + 1 * TicksPerDay]

\* C17: for currentLevel >= 0 a correct recall never lowers the level below
\* the cap of 5, and at or above the cap (values beyond the table length
\* included) returns exactly level 5 with the 30-day interval.
C17_CorrectRecallClamps ==
    (Called /\ sched.correct /\ sched.level >= 0) =>
        /\ sched.level < 5 => Result.level >= sched.level
        /\ sched.level >= 5 =>
               Result = [level |-> 5, date |-> sched.at + 30 * TicksPerDay]

\* a correct recall of a level beyond the table length
C17_Witness ==
    /\ Called /\ sched.correct /\ sched.level = MaxLevelIn /\ sched.level > 5
    /\ Result.level = 5

---------------------------------------------------------------------------
(* Claims about grading, checked under ActiveSpec *)

Range(q) == {q[i] : i \in DOMAIN q}

\* this step is a handleRate call
GradeStep == grades' # grades

\* the store after one updateWord of the current word with the scheduler's
\* result for the outcome correct, and the session advanced by one card
C3_Graded(correct) ==
    LET w == CurrentWord
        r == CalculateNextReview(w.reviewLevel, correct, now)
    IN  /\ words'[w.id].reviewLevel = r.level
        /\ words'[w.id].nextReviewDate = r.date
        /\ words'[w.id].lastReviewedAt = now
        /\ words'[w.id].todayImage = words[w.id].todayImage
        /\ \A i \in WordIds \ {w.id} :
               /\ words'[i].reviewLevel = words[i].reviewLevel
               /\ words'[i].nextReviewDate = words[i].nextReviewDate
               /\ words'[i].lastReviewedAt = words[i].lastReviewedAt
        /\ \/ currentIndex' = currentIndex + 1 /\ completions' = completions
           \/ currentIndex' = currentIndex /\ completions' = Append(completions, 50)

\* C3: grade(correct) on the current card writes, for that word alone, the
\* level and date calculateNextReview gives for the current word's
\* reviewLevel and the outcome, with lastReviewedAt = now, and advances the
\* session; a correct grade of a level-2 word stores level 3 and a date 7
\* days out.
C3_GradeStoresSchedule ==
    [][GradeStep =>
          /\ \E correct \in BOOLEAN : C3_Graded(correct)
          /\ (CurrentWord.reviewLevel = 2 /\ words'[CurrentWord.id].reviewLevel # 0) =>
                 /\ words'[CurrentWord.id].reviewLevel = 3
                 /\ words'[CurrentWord.id].nextReviewDate = now + 7 * TicksPerDay]_vars

\* a word graded correct at level 2 after the clock has moved
C3_Witness ==
    /\ lastOp = "rate"
    /\ \E i \in WordIds :
           /\ words[i].reviewLevel = 3
           /\ words[i].lastReviewedAt = MaxClock
           /\ words[i].nextReviewDate = MaxClock + 7 * TicksPerDay

\* C4: every grade call, correct or not, increases the graded word's stored
\* reviewCount by exactly 1.
C4_GradeCountsReview ==
    [][GradeStep =>
          words'[CurrentWord.id].reviewCount =
              NormCount(words[CurrentWord.id].reviewCount) + 1]_vars

\* C7: in an active session over N >= 1 words, onComplete(50) is called
\* exactly once, on the N-th grade and not before, and until then the cursor
\* equals the number of grades made.
C7_CompletesOnNthGrade ==
    LET N == Len(sessionWords)
    IN  (sessMode = "active" /\ N >= 1) =>
            /\ grades <= N
            /\ grades < N => (50 \notin Range(completions) /\ currentIndex = grades)
            /\ grades = N => (completions = <<50>> /\ ~mountedRef)

\* a session over three words graded to its end, one recall failed and one
\* successful among them
C7_Witness ==
    /\ sessMode = "active"
    /\ Len(sessionWords) = 3 /\ grades = 3
    /\ completions = <<50>>
    /\ \E i, j \in WordIds :
           /\ words[i].lastReviewedAt # Null /\ words[i].reviewLevel = 0
           /\ words[j].lastReviewedAt # Null /\ words[j].reviewLevel > 0

---------------------------------------------------------------------------
(* Claims about the session in either mode, checked under Spec *)

\* this step is the auto-advance of a card sequence (handleNext of line 126)
AdvanceStep ==
    /\ lastOp' = "advance"
    /\ currentIndex' # currentIndex \/ completions' # completions

\* C5: in passive mode, a card whose sequence runs to its auto-advance has
\* its word's stored reviewCount increased by exactly 1.
C5_PassivePlayCountsReview ==
    [][AdvanceStep =>
          \E s \in seqs \ seqs' :
              /\ s.pc = "wait2"
              /\ words'[s.w].reviewCount = NormCount(words[s.w].reviewCount) + 1]_vars

\* the scheduling fields of every stored word
Schedule(store) ==
    [i \in DOMAIN store |->
        <<store[i].reviewLevel, store[i].nextReviewDate, store[i].lastReviewedAt>>]

\* C6: no step of a passive-mode session (play, pause, shuffle, the steps of
\* a card sequence up to auto-advance, an image-cache fill, exit, leaving)
\* changes the stored reviewLevel, nextReviewDate or lastReviewedAt of a word.
C6_PassiveKeepsSchedule ==
    [][sessMode = "passive" => Schedule(words') = Schedule(words)]_vars

\* a passive session that auto-advanced past its first card, filled the image
\* cache of word 2 (never cached at the start) and was then left by Exit
C6_Witness ==
    /\ sessMode = "passive"
    /\ currentIndex >= 1
    /\ words[2].todayImage # NoImage
    /\ completions = <<0>>

\* C8: exit before natural completion reports onComplete(0) and never
\* onComplete(50): once 0 has been reported it is the session's only report,
\* the session is gone, and nothing suspended reports 50 afterwards.
C8_ExitReportsZero ==
    (0 \in Range(completions)) => (completions = <<0>> /\ ~mountedRef)

\* exit on the second card of a passive session while playback was engaged
\* (isPlayingRef is left set by the unmount), the card's sequence run out since
C8_Witness ==
    /\ sessMode = "passive"
    /\ lastOp # "exit"
    /\ completions = <<0>>
    /\ isPlayingRef
    /\ currentIndex = 1
    /\ seqs = {}

\* the entries of q after position k (1-based), as a bag
BagAfter(q, k) ==
    LET idx == {i \in DOMAIN q : i > k}
    IN  [x \in {q[i] : i \in idx} |-> Cardinality({i \in idx : q[i] = x})]

C10_ShuffleNoOp ==
    [][(lastOp' = "shuffle" /\ Len(sessionWords) - 1 - currentIndex <= 1) =>
          UNCHANGED sessVars]_vars

---------------------------------------------------------------------------
(* Claims about the liveness of card sequences, checked under Spec *)

\* this step is the continuation of a suspended card sequence
SequenceStep ==
    /\ lastOp' \in {"gen", "speak1", "timer1", "load", "speak2", "timer2", "advance"}
    /\ seqs' # seqs

\* the sequences that started a narration in this step
Narrated == {t \in seqs' : t.pc \in SpeakPcs /\ t \notin seqs}

\* C11: a card sequence found suspended while the session is paused or torn
\* down (whatever stopped it: the pause toggle, shuffle, exit or unmount, and
\* whichever await it is suspended at) does nothing more: its continuation
\* starts no narration, reveals no image and makes no auto-advance.
C11_StoppedSequenceIsSilent ==
    [][(SequenceStep /\ Abandoned) =>
          /\ Narrated = {}
          /\ showImage' = showImage /\ currentImage' = currentImage
          /\ currentIndex' = currentIndex /\ completions' = completions]_vars

\* C12: while playback is engaged at most one card sequence of the session
\* is alive, so after a pause and a resume only the sequence the resume
\* started is left to narrate or auto-advance.
C12_OneLiveSequence ==
    (mountedRef /\ isPlayingRef) => Cardinality(seqs) <= 1

---------------------------------------------------------------------------
(* Claims about the card media, checked under Spec *)

\* C13: in active mode every card on show, the first one included and with
\* no action of the learner, has its illustration being resolved (the
\* loading state) or already resolved (an image to display).
C13_ActiveCardLoadsMedia ==
    (sessMode = "active" /\ Rendered) => (loadingImage \/ currentImage # NoImage)

\* the image generations this step issued for a card: the sequences it left
\* awaiting generateCardImage
Generating == {t \in seqs' \ seqs : t.pc \in {"gen", "aload"}}

\* C14: no image generation is issued for a word whose stored record already
\* holds an image cached for today's date, on whatever occasion the card's
\* illustration is resolved again that day.
C14_CachedImageNotRegenerated ==
    [][\A t \in Generating : NeedsImage(words[t.w], TodayStr(now))]_vars

---------------------------------------------------------------------------
(* Claims about an empty session, checked under Spec *)

\* C19: a session mounted over an empty word list has reported completion
\* to the host (an onComplete call) without any action of the learner, so in
\* every state of such a session, from the mount on, a report has been made.
C19_EmptySessionCompletes ==
    Len(sessionWords) = 0 => completions # <<>>

---------------------------------------------------------------------------
(* Claims about the host's reward, checked under Spec *)

\* the suspended pet updates that resolved in this step
Resolved == petCalls \ petCalls'

\* C20: once a session has completed naturally (onComplete(50)) and the pet
\* reaction requested by that completion resolves, the saved pet has exactly
\* 50 XP more than the pet the completion started from: the reaction's update
\* keeps the reward.
C20_RewardSurvivesReaction ==
    [][\A c \in Resolved :
          (c.kind = "react" /\ 50 \in Range(completions)) =>
              pet'.xp = c.snap.xp + 50]_vars

---------------------------------------------------------------------------
(* Claims about the host's review preparation, checked under SelectSpec *)

\* this step is a startReview('due') call from the home screen
DueStep == lastOp' = "due" /\ ~mountedRef

\* C15: a due review selects every stored word whose nextReviewDate is <= now,
\* a word at level 0 whose date is now (as a failed recall leaves it) included.
C15_DueReviewTakesEveryDueWord ==
    [][DueStep =>
          \A i \in DOMAIN words :
              words[i].nextReviewDate <= now =>
                  /\ mountedRef'
                  /\ \E k \in DOMAIN sessionWords' : sessionWords'[k].id = i]_vars

---------------------------------------------------------------------------
(* Claims about the store from empty, checked under StoreSpec *)

\* C18: whatever lookups, passive plays and grades have been made since the
\* store was empty, every stored word's reviewLevel is an integer in 0..5.
C18_LevelInRange ==
    \A k \in DOMAIN words : words[k].reviewLevel \in 0..5

\* a looked-up word whose image a passive play (or the lookup) has cached,
\* graded up to level 5 and then graded correct once more in a session that
\* found it at level 5
C18_Witness ==
    /\ lastOp = "rate" /\ grades = 1
    /\ sessionWords[1].reviewLevel = 5
    /\ \E k \in DOMAIN words :
           /\ words[k].id = sessionWords[1].id
           /\ words[k].reviewLevel = 5
           /\ words[k].lastReviewedAt = now
           /\ words[k].todayImage # NoImage

---------------------------------------------------------------------------
(* Claims about the cursor, checked under Spec *)

\* C21: in a session over a non-empty queue the cursor always addresses an
\* entry of the queue, 0 <= cursor < queue length, whatever the interleaving
\* of pause, resume, shuffle and the pending narrations, timers and images.
C21_CursorInQueue ==
    Len(sessionWords) >= 1 =>
        (0 <= currentIndex /\ currentIndex < Len(sessionWords))

\* C22: in passive mode the cursor is advanced only by the sequence of the
\* card under it, so one card's presentation moves it by one position at
\* most and no entry is passed over by the presentation of an earlier card.
C22_OneAdvancePerCard ==
    [][(AdvanceStep /\ sessMode = "passive") =>
          \E s \in seqs \ seqs' : s.pc = "wait2" /\ s.idx = currentIndex]_vars

---------------------------------------------------------------------------
(* Claim about the day's statistics, checked under Spec *)

\* C29: leaving a session early (onComplete(0)) leaves the day's
\* reviewSessionDone flag as it was: the flag becomes true only in a step in
\* which the session completes naturally (onComplete(50)).
C29_ExitLeavesSessionFlag ==
    [][(~GetDailyStats.reviewSessionDone /\ stats'.reviewSessionDone) =>
          completions' = Append(completions, 50)]_vars

---------------------------------------------------------------------------
(* Claim about the number of image generations, checked under Spec *)

\* the generateCardImage calls this step issued: the sequences it left
\* awaiting one and the cache fills it left pending
CallsIssued ==
    Cardinality(Generating) + BagCardinality(fills') - BagCardinality(fills)

\* C30: in passive mode a card sequence started for a word with no image
\* cached for today issues exactly one image generation, whose result is both
\* the image shown on the card and the image written to the word's cache.
C30_OneGenerationPerCard ==
    [][(sessMode = "passive" /\ Generating # {}) => CallsIssued = 1]_vars

---------------------------------------------------------------------------
(* Claims about the order of a passive card's steps, checked under Spec *)

\* a shuffle made while passive playback is engaged and an entry remains
\* after the cursor
ShuffleWhilePlaying ==
    /\ lastOp' = "shuffle"
    /\ sessMode = "passive"
    /\ isPlaying
    /\ currentIndex < Len(sessionWords) - 1

\* C24: a shuffle made while passive playback is engaged and at least one
\* entry remains after the cursor leaves playback paused, and while playback
\* is paused, from the shuffle until a resume, no auto-advance happens.
C24_ShufflePausesPlayback ==
    [][/\ ShuffleWhilePlaying => (~isPlaying' /\ ~isPlayingRef')
       /\ (AdvanceStep /\ sessMode = "passive") => (isPlaying /\ isPlayingRef)]_vars

\* a shuffle has just paused a passive session whose card sequence is still
\* suspended at a pending image call
C24_Witness ==
    /\ lastOp = "shuffle"
    /\ sessMode = "passive"
    /\ mountedRef
    /\ ~isPlaying
    /\ currentIndex < Len(sessionWords) - 1
    /\ \E s \in seqs : s.idx = currentIndex /\ s.pc \in {"gen", "load"}

\* the moves of a passive card sequence from one await to the next: image
\* generation, first narration, 500ms pause, image load (the reveal made),
\* second narration, 2500ms dwell
StepOrder ==
    {<<"gen", "speak1">>, <<"speak1", "wait1">>, <<"wait1", "load">>,
     <<"load", "speak2">>, <<"speak2", "wait2">>}

\* t is the sequence s one step later
SameSequence(s, t) == t.id = s.id /\ t.idx = s.idx /\ t.w = s.w

\* the sequences that were at await a and are, after this step, at await b
Passed(a, b) ==
    {s \in seqs : s.pc = a /\ \E t \in seqs' : SameSequence(s, t) /\ t.pc = b}

\* C25: a passive card sequence takes its steps in a fixed order: the image
\* is revealed only when the 500ms pause that followed the first narration
\* has elapsed, the second narration starts only after the reveal (and the
\* load of the image), and the auto-advance is made only when the 2500ms
\* dwell that followed the second narration has elapsed.
C25_StepsInOrder ==
    [][sessMode = "passive" =>
          /\ \A s \in seqs : \A t \in seqs' :
                 (SameSequence(s, t) /\ t.pc # s.pc) => <<s.pc, t.pc>> \in StepOrder
          /\ (showImage' /\ ~showImage) => Passed("wait1", "load") # {}
          /\ (\E t \in Narrated : t.pc = "speak2") =>
                 Passed("load", "speak2") # {}
          /\ AdvanceStep => \E s \in seqs \ seqs' : s.pc = "wait2"]_vars

\* a card's sequence has run to its auto-advance and the next card's
\* sequence has started
C25_Witness ==
    /\ lastOp = "advance"
    /\ sessMode = "passive"
    /\ currentIndex = 1
    /\ \A s \in seqs : s.idx = 1
    /\ seqs # {}

---------------------------------------------------------------------------
(* Claim about the cache fill of an abandoned sequence, checked under Spec *)

\* the stored record at position k differs from what it was in its image
\* cache only
CacheOnly(k) ==
    \A fld \in DOMAIN GetWords(words)[k] :
        fld \notin {"todayImage", "todayImageDate"} =>
            GetWords(words')[k][fld] = GetWords(words)[k][fld]

\* this step wrote the result of the pending generation f to the cache of
\* its word, for the day the sequence asked for it, and nothing else
Filled(f) ==
    LET k == FindIndex(words, f.w)
    IN  /\ fills' = fills (-) SetToBag({f})
        /\ k # 0
        /\ words'[k].todayImage # NoImage
        /\ words'[k].todayImageDate = f.day
        /\ CacheOnly(k)
        /\ \A j \in DOMAIN words \ {k} : GetWords(words')[j] = GetWords(words)[j]

\* this step is the resolution of a pending cache fill
FillStep == lastOp' = "fill" /\ fills' # fills

\* C27: an image generation a passive sequence requested outlives the pause
\* or the exit of the session: the pending call is kept, its result is
\* written to the word's cache (todayImage, dated the sequence's today) when
\* it resolves, no other step of a passive session changes a stored word,
\* and the continuation of a stopped sequence changes neither pet nor stats.
C27_AbandonedFillStillWritten ==
    [][sessMode = "passive" =>
          /\ lastOp' \in {"pause", "shuffle", "exit", "nav"} => fills' = fills
          /\ FillStep => \E f \in BagToSet(fills) : Filled(f)
          /\ GetWords(words') # GetWords(words) => FillStep
          /\ (SequenceStep /\ Abandoned) => (pet' = pet /\ stats' = stats)]_vars

\* the session was exited, and then the generation its sequence had
\* requested resolved and filled the word's cache
C27_Witness ==
    /\ lastOp = "fill"
    /\ sessMode = "passive"
    /\ ~mountedRef
    /\ completions = <<0>>
    /\ \E k \in DOMAIN words : words[k].todayImage # NoImage

\* the stored record at position k has another reviewLevel or nextReviewDate
\* after this step
Rescheduled(k) ==
    \/ words'[k].reviewLevel # words[k].reviewLevel
    \/ words'[k].nextReviewDate # words[k].nextReviewDate

\* the date the claim gives a word graded at time t to level: t plus the
\* interval for the level, or t itself at level 0
DateFor(level, t) ==
    IF level = 0 THEN t ELSE AddDays(t, INTERVALS[Min(level, Len(INTERVALS))])

\* C26: a stored word's reviewLevel and nextReviewDate change only by a grade
\* of that word (not by passive play, a cache fill, or the lookup of a
\* headword already stored), and after the grade nextReviewDate is the
\* grading moment plus the interval for the new level, or the grading moment
\* itself at level 0.
C26_OnlyGradesReschedule ==
    [][\A k \in DOMAIN words :
          Rescheduled(k) =>
              /\ GradeStep
              /\ HasCurrentWord
              /\ CurrentWord.id = words[k].id
              /\ words'[k].nextReviewDate = DateFor(words'[k].reviewLevel, now)]_vars

---------------------------------------------------------------------------
(* Claim about the app from an empty store, checked under AppSpec *)

\* some stored word is above level 0
Mastered == \E k \in DOMAIN words : words[k].reviewLevel >= 1

---------------------------------------------------------------------------
(* Claim about the completion of passive playback, checked under PlaySpec *)

\* C23: in passive mode, after any history of pause, resume and shuffle, if
\* playback is then left engaged (the session stays mounted and playing) and
\* every narration, timer, image load and image generation resolves, the
\* session eventually calls onComplete(50).
C23_PlaybackCompletes ==
    <>[](mountedRef /\ isPlaying) => <>(50 \in Range(completions))

====
